---- MODULE Spec2Model ----
(***************************************************************************)
(* Model of recup_urbanisme.py: the tile generator (generate_tiles), the   *)
(* adaptive subdivision (process_tile), the harvest loop and the export.   *)
(*                                                                         *)
(* Coordinates are Python floats.  They are modelled as binary floating    *)
(* point numbers with a PREC-bit significand and round-to-nearest-even,    *)
(* written as integers counted in units of 2^-(MAX_DEPTH+1) of a           *)
(* coordinate unit: the three halvings of a whole-unit tile stay integers  *)
(* and the smallest tile still has interior points.                        *)
(***************************************************************************)
EXTENDS Integers, Sequences, FiniteSets, TLC

\* ------------------------------------------------------------------------
\* Program constants and model bounds
\* ------------------------------------------------------------------------
MAX_DEPTH == 3
TILE_DIVISION_FACTOR == 2

\* The server cap (5000 in the source), scaled down.
MAX_FEATURES == 2
\* Significand width of the float model (53 for a Python float).
PREC == 6
\* Fetches that may fail during one run.
MaxFailures == 1
\* Tiles a generator may yield in the generator specification.
MaxYield == 16
\* Largest whole-unit coordinate of the regions drawn for the pure functions.
MaxCoord == 70

RECURSIVE Pow2(_)
Pow2(n) == IF n = 0 THEN 1 ELSE 2 * Pow2(n - 1)

\* One coordinate unit (1.0), in model units.
Unit == Pow2(MAX_DEPTH + 1)

Min(a, b) == IF a <= b THEN a ELSE b

\* ------------------------------------------------------------------------
\* Float arithmetic
\* ------------------------------------------------------------------------
\* Exponent of v >= 0: the least e with v < 2^(PREC+e).
RECURSIVE Expo(_)
Expo(v) == IF v < Pow2(PREC) THEN 0 ELSE 1 + Expo(v \div 2)

\* Rounding of the exact result v >= 0 to PREC significant bits, ties to even.
Fl(v) ==
    LET e == Expo(v)
        s == Pow2(e)
        q == v \div s
        r == v % s
    IN  IF e = 0 THEN v
        ELSE IF 2 * r > s \/ (2 * r = s /\ q % 2 = 1) THEN (q + 1) * s
        ELSE q * s

FAdd(a, b) == Fl(a + b)
FSub(a, b) == Fl(a - b)
FMul(k, a) == Fl(k * a)
\* Division by a power of two is exact in binary floating point.
FDiv(a, k) == a \div k

Representable(v) == Fl(v) = v

\* ------------------------------------------------------------------------
\* generate_tiles (lines 27-35)
\* ------------------------------------------------------------------------
\* A generator is suspended at a yield (st = "yield", at x, y), not yet
\* started (st = "new") or exhausted (st = "done").
NewGen == [st |-> "new", x |-> 0, y |-> 0]

\* Mutant of line 33: the tile is not clipped to the bounds.
TileAtUnclipped(g, b, size) ==
    <<g.x, g.y, FAdd(g.x, size), FAdd(g.y, size)>>

\* The tile yielded at the suspension point (line 33).
TileAt(g, b, size) ==
    <<g.x, g.y, Min(FAdd(g.x, size), b[3]), Min(FAdd(g.y, size), b[4])>>

\* next() on the generator: run to the next yield or to the end.  The
\* bounds satisfy miny < maxy, so a new row always starts with a yield.
Resume(g, b, size) ==
    IF g.st = "new"
    THEN IF b[1] < b[3] /\ b[2] < b[4]
         THEN [st |-> "yield", x |-> b[1], y |-> b[2]]
         ELSE [g EXCEPT !.st = "done"]
    ELSE LET y2 == FAdd(g.y, size)
             x2 == FAdd(g.x, size)
         IN  IF y2 < b[4] THEN [g EXCEPT !.y = y2]
             ELSE IF x2 < b[3] THEN [g EXCEPT !.x = x2, !.y = b[2]]
             ELSE [g EXCEPT !.st = "done"]

\* The whole sequence of tiles, when the generator terminates.
RECURSIVE TilesFrom(_, _, _)
TilesFrom(g, b, size) ==
    LET h == Resume(g, b, size)
    IN  IF h.st = "done" THEN <<>>
        ELSE <<TileAt(h, b, size)>> \o TilesFrom(h, b, size)

generate_tiles(b, size) == TilesFrom(NewGen, b, size)

\* ------------------------------------------------------------------------
\* process_tile: the pure parts (lines 58-89)
\* ------------------------------------------------------------------------
\* Mutants of line 67: "<=" for "<", and the depth test forgotten.
AcceptsAtCap(n, depth) == n <= MAX_FEATURES \/ depth >= MAX_DEPTH
AcceptsNoDepth(n, depth) == n < MAX_FEATURES

\* Line 67: the record set is returned as it is.
Accepts(n, depth) == n < MAX_FEATURES \/ depth >= MAX_DEPTH

\* Mutant of lines 64-65: a failed tile is subdivided instead of abandoned.
DecideRetry(none, n, depth) ==
    IF none /\ depth < MAX_DEPTH THEN "split"
    ELSE IF none THEN "empty"
    ELSE IF Accepts(n, depth) THEN "accept"
    ELSE "split"

\* Lines 64-72: what process_tile does with the answer of get_features.
Decide(none, n, depth) ==
    IF none THEN "empty"
    ELSE IF Accepts(n, depth) THEN "accept"
    ELSE "split"

\* Mutant of line 87: the sub-results are put in front.
ExtendFront(results, v) == v \o results

\* Line 87: results.extend(...).
Extend(results, v) == results \o v

\* Mutant of lines 83 and 85: the x size is used on the y axis as well.
SubBBoxOneSize(bbox, i, j) ==
    LET minx == bbox[1]
        miny == bbox[2]
        maxx == bbox[3]
        new_size_x == FDiv(FSub(maxx, minx), TILE_DIVISION_FACTOR)
    IN  << FAdd(minx, FMul(i, new_size_x)),
           FAdd(miny, FMul(j, new_size_x)),
           FAdd(minx, FMul(i + 1, new_size_x)),
           FAdd(miny, FMul(j + 1, new_size_x)) >>

\* Lines 74-86: the sub-tile (i, j) of bbox.
SubBBox(bbox, i, j) ==
    LET minx == bbox[1]
        miny == bbox[2]
        maxx == bbox[3]
        maxy == bbox[4]
        new_size_x == FDiv(FSub(maxx, minx), TILE_DIVISION_FACTOR)
        new_size_y == FDiv(FSub(maxy, miny), TILE_DIVISION_FACTOR)
    IN  << FAdd(minx, FMul(i, new_size_x)),
           FAdd(miny, FMul(j, new_size_y)),
           FAdd(minx, FMul(i + 1, new_size_x)),
           FAdd(miny, FMul(j + 1, new_size_y)) >>

\* Lines 79-80: the sub-tiles in the order of the two loops (i outer, j inner).
NumChildren == TILE_DIVISION_FACTOR * TILE_DIVISION_FACTOR

\* Mutant of lines 79-80: the outer index never advances.
ChildIJStuck(k) == <<0, (k - 1) % TILE_DIVISION_FACTOR>>

ChildIJ(k) ==
    <<(k - 1) \div TILE_DIVISION_FACTOR, (k - 1) % TILE_DIVISION_FACTOR>>

SubTiles(bbox) ==
    [k \in 1..NumChildren |-> SubBBox(bbox, ChildIJ(k)[1], ChildIJ(k)[2])]

\* ------------------------------------------------------------------------
\* The remote service behind get_features (lines 37-56)
\* ------------------------------------------------------------------------
\* Candidate positions of the features of the layer: inside a smallest
\* tile, on the line between two quarter-tiles, on the line between two
\* initial tiles, and further east.
Pts == << <<1, 1>>, <<8, 3>>, <<16, 5>>, <<20, 9>> >>

\* A feature is a point with an identity.
Feature(id, p) == [id |-> id, x |-> Pts[p][1], y |-> Pts[p][2]]

\* The layers: up to MAX_FEATURES + 1 features on the candidate positions.
Worlds ==
    { {Feature(k, w[k]) : k \in DOMAIN w} :
        w \in UNION { { f \in [1..n -> 1..Len(Pts)] :
                          \A a, c \in 1..n : a <= c => f[a] <= f[c] } :
                      n \in 0..(MAX_FEATURES + 1) } }

\* The features intersecting a region (the bbox filter of the request).
Inside(S, bbox) ==
    { f \in S : bbox[1] <= f.x /\ f.x <= bbox[3] /\ bbox[2] <= f.y /\ f.y <= bbox[4] }


\* ------------------------------------------------------------------------
\* State
\* ------------------------------------------------------------------------
VARIABLES
    pc,              \* position of the run
    cfg,             \* [bounds, size]: BBOX_FRANCE and INITIAL_TILE_SIZE
    service,         \* behaviour of the remote service
    world,           \* the features of the layer
    failures,        \* fetches that failed so far
    gen,             \* the generator of the harvest loop (line 99)
    i,               \* number of initial tiles taken from the generator
    total_tiles,     \* line 96
    stack,           \* activations of process_tile, innermost last
    tile_features,   \* line 102
    all_features,    \* line 92
    total_collected, \* line 93
    final_gdf,       \* line 116
    files,           \* files written by the export
    diag,            \* line 132 was printed
    calls,           \* history: every get_features call, in order
    rets,            \* history: every return of process_tile
    sleepLog,        \* history: the initial tile after which each sleep occurred
    fin,             \* pure-function specifications: the input
    fout             \* pure-function specifications: what was produced

vars == <<pc, cfg, service, world, failures, gen, i, total_tiles, stack,
          tile_features, all_features, total_collected, final_gdf, files,
          diag, calls, rets, sleepLog, fin, fout>>

\* BBOX_FRANCE and INITIAL_TILE_SIZE are whole coordinate units; so are the
\* scaled-down areas of interest.
Configs ==
    { [bounds |-> <<0, 0, Unit, Unit>>, size |-> Unit],
      [bounds |-> <<0, 0, 2 * Unit, Unit>>, size |-> Unit],
      [bounds |-> <<0, 0, 3 * Unit, 2 * Unit>>, size |-> 2 * Unit],
      [bounds |-> <<0, 0, Unit, 2 * Unit>>, size |-> Unit] }

\* The remote service is the real one ("server": the features intersecting
\* the region, cut at the cap) or a pathological one that answers every
\* request with the cap ("saturated") or more ("flooding") and never fails.
Services == {"server", "saturated", "flooding"}

\* What the service can answer for a region: a record set is its row count n
\* and its features; bbox and depth record the tile it was fetched for.
Answers(bbox, depth) ==
    LET S == Inside(world, bbox)
    IN  IF service = "saturated"
        THEN { [none |-> FALSE, n |-> MAX_FEATURES, feats |-> {}, bbox |-> bbox, depth |-> depth] }
        ELSE IF service = "flooding"
        THEN { [none |-> FALSE, n |-> MAX_FEATURES + 1, feats |-> {}, bbox |-> bbox, depth |-> depth] }
        ELSE IF Cardinality(S) < MAX_FEATURES
        THEN { [none |-> FALSE, n |-> Cardinality(S), feats |-> S, bbox |-> bbox, depth |-> depth] }
        ELSE { [none |-> FALSE, n |-> MAX_FEATURES, feats |-> T, bbox |-> bbox, depth |-> depth] :
                 T \in { U \in SUBSET S : Cardinality(U) = MAX_FEATURES } }

\* Lines 50-56: what get_features can return: None when the request fails
\* (none = TRUE), the answer of the service otherwise.
Returned(bbox, depth) ==
    Answers(bbox, depth) \cup
    IF service = "server" /\ failures < MaxFailures
    THEN { [none |-> TRUE, n |-> 0, feats |-> {}, bbox |-> bbox, depth |-> depth] }
    ELSE {}

Frame(bbox, depth) == [bbox |-> bbox, depth |-> depth, k |-> 0, results |-> <<>>]

Top(s) == s[Len(s)]
Pop(s) == SubSeq(s, 1, Len(s) - 1)

\* Lines 87-89: the callee returned v to the activation on top of stk.  The
\* caller extends its results and calls the next sub-tile or, after the last
\* one, returns its results to its own caller.
RECURSIVE Unwind(_, _, _)
Unwind(stk, v, rs) ==
    IF stk = <<>>
    THEN [stack |-> <<>>, rets |-> rs, returned |-> TRUE, value |-> v]
    ELSE LET f == Top(stk)
             res == Extend(f.results, v)
         IN  IF f.k < NumChildren
             THEN [stack |-> Append([stk EXCEPT ![Len(stk)] =
                                        [f EXCEPT !.k = f.k + 1, !.results = res]],
                                    Frame(SubTiles(f.bbox)[f.k + 1], f.depth + 1)),
                   rets |-> rs, returned |-> FALSE, value |-> <<>>]
             ELSE Unwind(Pop(stk), res,
                         rs \cup {[tile |-> i, bbox |-> f.bbox, depth |-> f.depth,
                                   value |-> res]})

\* History of a get_features call and of what process_tile did with it.
Call(g, out) ==
    [tile |-> i, bbox |-> g.bbox, depth |-> g.depth, none |-> g.none,
     n |-> g.n, out |-> out]

\* The state after process_tile returned v for the tile on top of the stack.
Returns(v) ==
    LET t == Top(stack)
        u == Unwind(Pop(stack), v,
                    rets \cup {[tile |-> i, bbox |-> t.bbox, depth |-> t.depth,
                                value |-> v]})
    IN  /\ stack' = u.stack
        /\ rets' = u.rets
        /\ IF u.returned
           THEN pc' = "collect" /\ tile_features' = u.value
           ELSE UNCHANGED <<pc, tile_features>>

Fetching == pc = "proc" /\ stack # <<>> /\ Top(stack).k = 0

InitHarvest ==
    /\ pc = "loop"
    /\ cfg \in Configs
    /\ service \in Services
    /\ world \in Worlds
    /\ service # "server" => world = {} /\ cfg.bounds = <<0, 0, Unit, Unit>>
    /\ failures = 0
    /\ gen = NewGen
    /\ i = 0
    /\ total_tiles = Len(generate_tiles(cfg.bounds, cfg.size))
    /\ stack = <<>>
    /\ tile_features = <<>>
    /\ all_features = <<>>
    /\ total_collected = 0
    /\ final_gdf = [n |-> 0, feats |-> {}]
    /\ files = {}
    /\ diag = FALSE
    /\ calls = <<>>
    /\ rets = {}
    /\ sleepLog = <<>>
    /\ fin = <<>>
    /\ fout = <<>>

\* ------------------------------------------------------------------------
\* The harvest loop (lines 99-112)
\* ------------------------------------------------------------------------
\* Line 99: the loop takes the next initial tile and calls process_tile.
NextTile ==
    /\ pc = "loop"
    /\ LET g == Resume(gen, cfg.bounds, cfg.size)
       IN  /\ g.st # "done"
           /\ gen' = g
           /\ i' = i + 1
           /\ stack' = <<Frame(TileAt(g, cfg.bounds, cfg.size), 0)>>
    /\ pc' = "proc"
    /\ UNCHANGED <<cfg, service, world, failures, total_tiles, tile_features,
                   all_features, total_collected, final_gdf, files, diag,
                   calls, rets, sleepLog, fin, fout>>

\* Line 99: the generator is exhausted.
EndLoop ==
    /\ pc = "loop"
    /\ LET g == Resume(gen, cfg.bounds, cfg.size)
       IN  g.st = "done" /\ gen' = g
    /\ pc' = "export"
    /\ UNCHANGED <<cfg, service, world, failures, i, total_tiles, stack,
                   tile_features, all_features, total_collected, final_gdf,
                   files, diag, calls, rets, sleepLog, fin, fout>>

\* Lines 63-65: get_features returned None and process_tile returns [].
FetchEmpty ==
    /\ Fetching
    /\ LET t == Top(stack)
       IN  \E g \in Returned(t.bbox, t.depth) :
              /\ Decide(g.none, g.n, t.depth) = "empty"
              /\ failures' = IF g.none THEN failures + 1 ELSE failures
              /\ calls' = Append(calls, Call(g, "empty"))
              /\ Returns(<<>>)
    /\ UNCHANGED <<cfg, service, world, gen, i, total_tiles, all_features,
                   total_collected, final_gdf, files, diag, sleepLog, fin, fout>>

\* Lines 67-70: the record set is accepted and returned alone.
FetchAccept ==
    /\ Fetching
    /\ LET t == Top(stack)
       IN  \E g \in Returned(t.bbox, t.depth) :
              /\ Decide(g.none, g.n, t.depth) = "accept"
              /\ failures' = IF g.none THEN failures + 1 ELSE failures
              /\ calls' = Append(calls, Call(g, "accept"))
              /\ Returns(<<g>>)
    /\ UNCHANGED <<cfg, service, world, gen, i, total_tiles, all_features,
                   total_collected, final_gdf, files, diag, sleepLog, fin, fout>>

\* Lines 72-87: the record set is dropped and the first sub-tile is processed.
FetchSplit ==
    /\ Fetching
    /\ LET t == Top(stack)
       IN  \E g \in Returned(t.bbox, t.depth) :
              /\ Decide(g.none, g.n, t.depth) = "split"
              /\ failures' = IF g.none THEN failures + 1 ELSE failures
              /\ calls' = Append(calls, Call(g, "split"))
              /\ stack' = Append([stack EXCEPT ![Len(stack)] = [t EXCEPT !.k = 1]],
                                 Frame(SubTiles(t.bbox)[1], t.depth + 1))
    /\ UNCHANGED <<pc, cfg, service, world, gen, i, total_tiles,
                   tile_features, all_features, total_collected, final_gdf,
                   files, diag, rets, sleepLog, fin, fout>>

\* Mutant of line 104: break.
AfterEmptyTileBreak == "export"

\* Line 104: continue.
AfterEmptyTile == "loop"

\* Lines 103-104: nothing came back for the initial tile.
SkipTile ==
    /\ pc = "collect"
    /\ tile_features = <<>>
    /\ pc' = AfterEmptyTile
    /\ UNCHANGED <<cfg, service, world, failures, gen, i, total_tiles, stack,
                   tile_features, all_features, total_collected, final_gdf,
                   files, diag, calls, rets, sleepLog, fin, fout>>

\* Mutant of line 107: the test is dropped.
NonEmptyAny(r) == TRUE

\* Line 107.
NonEmpty(r) == r.n > 0

RECURSIVE SumN(_)
SumN(s) == IF s = <<>> THEN 0 ELSE s[1].n + SumN(Tail(s))

\* Lines 106-112: the non-empty record sets are kept, then the loop sleeps.
CollectTile ==
    /\ pc = "collect"
    /\ tile_features # <<>>
    /\ all_features' = all_features \o SelectSeq(tile_features, NonEmpty)
    /\ total_collected' = total_collected + SumN(tile_features)
    /\ sleepLog' = Append(sleepLog, [tile |-> i, at |-> Len(calls)])
    /\ pc' = "loop"
    /\ UNCHANGED <<cfg, service, world, failures, gen, i, total_tiles, stack,
                   tile_features, final_gdf, files, diag, calls, rets, fin, fout>>

\* ------------------------------------------------------------------------
\* Merge and export (lines 115-132)
\* ------------------------------------------------------------------------
\* Line 116: pd.concat of the record sets.
Concat(s) == [n |-> SumN(s), feats |-> UNION {s[k].feats : k \in DOMAIN s}]

\* Line 115: the test that decides the export.
HasData(s) == s # <<>>

ExportFiles ==
    /\ pc = "export"
    /\ HasData(all_features)
    /\ final_gdf' = Concat(all_features)
    /\ files' = {"urbanisme_complet.geojson", "urbanisme_attributs.csv"}
    /\ pc' = "done"
    /\ UNCHANGED <<cfg, service, world, failures, gen, i, total_tiles, stack,
                   tile_features, all_features, total_collected, diag, calls,
                   rets, sleepLog, fin, fout>>

ReportEmpty ==
    /\ pc = "export"
    /\ ~HasData(all_features)
    /\ diag' = TRUE
    /\ pc' = "done"
    /\ UNCHANGED <<cfg, service, world, failures, gen, i, total_tiles, stack,
                   tile_features, all_features, total_collected, final_gdf,
                   files, calls, rets, sleepLog, fin, fout>>

Next ==
    \/ NextTile
    \/ EndLoop
    \/ FetchEmpty
    \/ FetchAccept
    \/ FetchSplit
    \/ SkipTile
    \/ CollectTile
    \/ ExportFiles
    \/ ReportEmpty

Spec == InitHarvest /\ [][Next]_vars


\* ------------------------------------------------------------------------
\* Properties of the harvest
\* ------------------------------------------------------------------------
Range(q) == {q[k] : k \in DOMAIN q}

PointIn(f, bbox) == Inside({f}, bbox) # {}

\* Region a lies within region b.
Within(a, b) == b[1] <= a[1] /\ b[2] <= a[2] /\ a[3] <= b[3] /\ a[4] <= b[4]

CallsOf(t) == {k \in DOMAIN calls : calls[k].tile = t}

\* The return of process_tile for a tile that was fetched.
RetOf(bbox) == CHOOSE r \in rets : r.bbox = bbox
HasRet(bbox) == \E r \in rets : r.bbox = bbox

\* The run is over.
Finished == pc = "done"

\* C1: with the real service and no failing fetch, after the run every
\* feature of the area of interest is in the merged result, unless it lies
\* in a depth-MAX_DEPTH tile whose fetch returned MAX_FEATURES records.
C1_NoFeatureDropped ==
    (Finished /\ service = "server" /\ failures = 0) =>
        \A f \in Inside(world, cfg.bounds) :
            \/ f \in final_gdf.feats
            \/ \E c \in Range(calls) :
                  c.depth = MAX_DEPTH /\ c.n = MAX_FEATURES /\ PointIn(f, c.bbox)

\* A run of the real service without failure in which an initial tile was
\* subdivided and every feature of a three-feature area was recovered.
C1_Witness ==
    /\ Finished /\ service = "server" /\ failures = 0
    /\ \E c \in Range(calls) : c.out = "split"
    /\ Cardinality(Inside(world, cfg.bounds)) > MAX_FEATURES
    /\ Inside(world, cfg.bounds) \subseteq final_gdf.feats

\* C2: every record set in all_features has fewer than MAX_FEATURES rows or
\* was fetched for a tile at depth exactly MAX_DEPTH.
C2_CapRespected ==
    \A k \in DOMAIN all_features :
        all_features[k].n < MAX_FEATURES \/ all_features[k].depth = MAX_DEPTH

\* A capped record set of a depth-MAX_DEPTH tile and an uncapped one of a
\* shallower tile were both accepted.
C2_Witness ==
    /\ \E k \in DOMAIN all_features :
          all_features[k].n >= MAX_FEATURES /\ all_features[k].depth = MAX_DEPTH
    /\ \E k \in DOMAIN all_features :
          all_features[k].n < MAX_FEATURES /\ all_features[k].depth < MAX_DEPTH

\* 1 + 4 + 16 + 64
FetchBound == 1 + 4 + 16 + 64

\* C3: whatever the service answers, process_tile(bbox, 0) fetches no tile
\* deeper than MAX_DEPTH, fetches at most 85 times, and terminates: while it
\* runs a next fetch is always possible and each step is one more fetch of
\* the at most 85.
C3_BoundedRecursion ==
    /\ [](/\ \A c \in Range(calls) : c.depth <= MAX_DEPTH
          /\ \A t \in 1..i : Cardinality(CallsOf(t)) <= FetchBound
          /\ pc = "proc" => Fetching /\ Returned(Top(stack).bbox, Top(stack).depth) # {})
    /\ [][pc = "proc" => /\ Len(calls') = Len(calls) + 1
                         /\ calls'[Len(calls')].tile = i
                         /\ pc' \in {"proc", "collect"}]_vars

\* process_tile returned after exactly 85 fetches, 64 of them at depth 3.
C3_Witness ==
    /\ pc = "collect"
    /\ Cardinality(CallsOf(i)) = FetchBound
    /\ Cardinality({k \in CallsOf(i) : calls[k].depth = MAX_DEPTH}) = 64

\* C6: when the fetch of an initial tile failed, every later initial tile
\* was processed and every non-empty record set accepted for the later
\* tiles is in all_features and in the merged result.
C6_FailureIsolated ==
    Finished =>
        \A e \in Range(calls) :
            (e.none /\ e.depth = 0) =>
                \A t \in (e.tile + 1)..total_tiles :
                    /\ \E c \in Range(calls) :
                          /\ c.tile = t /\ c.depth = 0
                          /\ c.bbox = generate_tiles(cfg.bounds, cfg.size)[t]
                    /\ \A r \in rets :
                          (/\ r.tile = t /\ Len(r.value) = 1
                           /\ r.value[1].bbox = r.bbox /\ r.value[1].n > 0) =>
                              /\ r.value[1] \in Range(all_features)
                              /\ r.value[1].feats \subseteq final_gdf.feats
                              /\ final_gdf.n >= r.value[1].n
                              /\ files # {}

\* The first initial tile failed and a record set of the second is in the
\* merged result.
C6_Witness ==
    /\ Finished
    /\ \E e \in Range(calls) : e.none /\ e.depth = 0 /\ e.tile = 1
    /\ \E r \in Range(all_features) : r.n > 0 /\ r.feats \subseteq final_gdf.feats
    /\ total_tiles >= 2

\* Number of initial tiles whose processing is over.
Completed == IF pc \in {"proc", "collect"} THEN i - 1 ELSE i

\* C7: after each initial tile exactly one sleep occurs before the next
\* initial tile is fetched, and no sleep occurs between two fetches of the
\* same initial tile.
C7_OneDelayPerTile ==
    /\ \A t \in 1..Completed :
          Cardinality({k \in DOMAIN sleepLog : sleepLog[k].tile = t}) = 1
    /\ \A k \in DOMAIN sleepLog :
          \A c \in CallsOf(sleepLog[k].tile) : c <= sleepLog[k].at

\* A non-empty record set was accepted somewhere.
SomeRecordAccepted ==
    \E r \in rets :
        Len(r.value) = 1 /\ r.value[1].bbox = r.bbox /\ ~r.value[1].none
                         /\ r.value[1].n > 0

\* C8: when no tile gave an accepted record set with a record, no file is
\* written and the diagnostic is printed; otherwise both files are written;
\* nothing is written before the last initial tile was processed.
C8_ExportDecision ==
    /\ Finished =>
          IF SomeRecordAccepted
          THEN files = {"urbanisme_complet.geojson", "urbanisme_attributs.csv"} /\ ~diag
          ELSE files = {} /\ diag
    /\ ~Finished => files = {} /\ ~diag
    /\ Finished => i = total_tiles /\ gen.st = "done" /\ stack = <<>>

\* The run ended with the diagnostic although a fetch succeeded (with no
\* record).
C8_Witness ==
    /\ Finished /\ diag /\ files = {}
    /\ \E c \in Range(calls) : c.out = "accept" /\ c.n = 0

\* C9: a tile whose fetch failed returns the empty sequence, no region
\* within it is fetched, and no region is fetched twice in a run.
C9_NoRetry ==
    /\ \A k \in DOMAIN calls :
          calls[k].none =>
              /\ HasRet(calls[k].bbox) /\ RetOf(calls[k].bbox).value = <<>>
              /\ \A m \in DOMAIN calls :
                    m # k => ~Within(calls[m].bbox, calls[k].bbox)
    /\ \A k, m \in DOMAIN calls : k # m => calls[k].bbox # calls[m].bbox

\* A sub-tile failed and the run went on to the end.
C9_Witness ==
    /\ Finished
    /\ \E c \in Range(calls) : c.none /\ c.depth >= 1
    /\ Len(calls) > 5

\* C10: a tile above MAX_DEPTH that returns MAX_FEATURES records or more is
\* subdivided; what process_tile returns for it is the concatenation of
\* what it returns for the four sub-tiles (i outer, j inner) at depth + 1,
\* and holds no record set of the tile itself.
C10_SplitReturnsChildren ==
    \A c \in Range(calls) :
        (~c.none /\ c.n >= MAX_FEATURES /\ c.depth < MAX_DEPTH) =>
            /\ c.out = "split"
            /\ \A r \in Range(all_features) : r.bbox # c.bbox
            /\ HasRet(c.bbox) =>
                  LET q == [k \in 1..4 |->
                               << <<c.bbox[1], c.bbox[2], (c.bbox[1] + c.bbox[3]) \div 2,
                                    (c.bbox[2] + c.bbox[4]) \div 2>>,
                                  <<c.bbox[1], (c.bbox[2] + c.bbox[4]) \div 2,
                                    (c.bbox[1] + c.bbox[3]) \div 2, c.bbox[4]>>,
                                  <<(c.bbox[1] + c.bbox[3]) \div 2, c.bbox[2],
                                    c.bbox[3], (c.bbox[2] + c.bbox[4]) \div 2>>,
                                  <<(c.bbox[1] + c.bbox[3]) \div 2,
                                    (c.bbox[2] + c.bbox[4]) \div 2, c.bbox[3], c.bbox[4]>>
                               >>[k]]
                  IN  /\ \A k \in 1..4 : HasRet(q[k]) /\ RetOf(q[k]).depth = c.depth + 1
                      /\ RetOf(c.bbox).value =
                            RetOf(q[1]).value \o RetOf(q[2]).value
                              \o RetOf(q[3]).value \o RetOf(q[4]).value
                      /\ \A r \in Range(RetOf(c.bbox).value) : r.bbox # c.bbox

\* A tile that returned exactly MAX_FEATURES records was subdivided and two
\* of its sub-tiles returned record sets.
C10_Witness ==
    \E c \in Range(calls) :
        /\ c.n = MAX_FEATURES /\ c.depth < MAX_DEPTH /\ c.out = "split"
        /\ HasRet(c.bbox)
        /\ Len(RetOf(c.bbox).value) >= 2
        /\ \E a, b \in Range(RetOf(c.bbox).value) : a.n > 0 /\ b.n > 0 /\ a.feats # b.feats


\* ------------------------------------------------------------------------
\* process_tile's subdivision as a function of the region
\* ------------------------------------------------------------------------
\* The harvest is not running.
Idle ==
    /\ cfg = [bounds |-> <<0, 0, Unit, Unit>>, size |-> Unit]
    /\ service = "server"
    /\ world = {}
    /\ failures = 0
    /\ i = 0
    /\ total_tiles = 0
    /\ stack = <<>>
    /\ tile_features = <<>>
    /\ all_features = <<>>
    /\ total_collected = 0
    /\ final_gdf = [n |-> 0, feats |-> {}]
    /\ files = {}
    /\ diag = FALSE
    /\ calls = <<>>
    /\ rets = {}
    /\ sleepLog = <<>>

idleVars == <<cfg, service, world, failures, i, total_tiles, stack,
              tile_features, all_features, total_collected, final_gdf, files,
              diag, calls, rets, sleepLog>>

\* Whole coordinate units that are floats, up to MaxCoord:
\* near zero, near the first integers that are no floats, and the
\* multiples of eight between.
Coords ==
    { Unit * v : v \in { w \in 0..MaxCoord :
                            /\ Representable(w)
                            /\ w <= 4 \/ w >= Pow2(PREC) - 4 \/ w % 8 = 0 } }

\* The regions drawn: any float extent on one axis, a short one on the other.
ShortExtents ==
    { <<0, Unit>>, <<0, 2 * Unit>>, <<Unit, 3 * Unit>>, <<0, 8 * Unit>> }
LongExtents == { <<a, b>> \in Coords \X Coords : a < b }

Regions ==
    { <<e[1], f[1], e[2], f[2]>> : e \in LongExtents, f \in ShortExtents }
    \cup { <<f[1], e[1], f[2], e[2]>> : e \in LongExtents, f \in ShortExtents }

RECURSIVE Flatten(_)
Flatten(ss) == IF ss = <<>> THEN <<>> ELSE Head(ss) \o Flatten(Tail(ss))

\* Lines 78-87 applied to every tile of one level, in order.
SplitAll(tiles) == Flatten([k \in DOMAIN tiles |-> SubTiles(tiles[k])])

InitTile ==
    /\ pc = "tile"
    /\ gen = NewGen
    /\ fin \in { [bbox |-> R, d |-> d] : R \in Regions, d \in 0..MAX_DEPTH }
    /\ fout = [level |-> 0, tiles |-> <<fin.bbox>>]
    /\ Idle

\* Every tile of the current level is subdivided (every fetch is capped).
SplitLevel ==
    /\ pc = "tile"
    /\ fout.level < fin.d
    /\ fout' = [level |-> fout.level + 1, tiles |-> SplitAll(fout.tiles)]
    /\ UNCHANGED <<pc, gen, fin>>
    /\ UNCHANGED idleVars

\* The depth asked for is reached.
SplitDone ==
    /\ pc = "tile"
    /\ fout.level = fin.d
    /\ pc' = "tiled"
    /\ UNCHANGED <<gen, fin, fout>>
    /\ UNCHANGED idleVars

NextTileFn == SplitLevel \/ SplitDone

SpecTile == InitTile /\ [][NextTileFn]_vars

Area(b) == (b[3] - b[1]) * (b[4] - b[2])

RECURSIVE SumArea(_)
SumArea(q) == IF q = <<>> THEN 0 ELSE Area(Head(q)) + SumArea(Tail(q))

\* Two regions share more than boundary points.
InteriorsMeet(a, b) ==
    /\ a[1] < b[3] /\ b[1] < a[3]
    /\ a[2] < b[4] /\ b[2] < a[4]

\* The tiles q lie in R, do not overlap, and fill R.
TilesExactly(q, R) ==
    /\ \A k \in DOMAIN q : Within(q[k], R)
    /\ \A k, m \in DOMAIN q : k # m => ~InteriorsMeet(q[k], q[m])
    /\ SumArea(q) = Area(R)

\* C4 as claimed: the 4^d sub-regions of any region subdivided to depth d
\* tile it exactly: their union is the region and no two of them overlap.
C4_AnyRegionTiledExactly ==
    pc = "tiled" =>
        /\ Len(fout.tiles) = Pow2(2 * fin.d)
        /\ TilesExactly(fout.tiles, fin.bbox)

\* The coordinates of R are multiples of 2^MAX_DEPTH * g and at most
\* 2^PREC * g, for a power of two g: every halving and every edge of the
\* subdivision is then a float.
OnGrid(R) ==
    \E e \in 0..12 :
        \A k \in 1..4 :
            /\ R[k] % (Pow2(MAX_DEPTH) * Pow2(e)) = 0
            /\ R[k] <= Pow2(PREC) * Pow2(e)

\* C4, amended: the 4^d sub-regions of a region on such a grid, subdivided
\* to depth d, tile it exactly.
C4_GridRegionTiledExactly ==
    (pc = "tiled" /\ OnGrid(fin.bbox)) =>
        /\ Len(fout.tiles) = Pow2(2 * fin.d)
        /\ TilesExactly(fout.tiles, fin.bbox)

\* A region on a grid, off the origin, wider than high and reaching the
\* largest power of two drawn, was subdivided to depth MAX_DEPTH into 64
\* tiles of positive area.
C4_Witness ==
    /\ pc = "tiled" /\ OnGrid(fin.bbox) /\ fin.d = MAX_DEPTH
    /\ fin.bbox[1] > 0
    /\ fin.bbox[3] = Unit * Pow2(PREC)
    /\ fin.bbox[3] - fin.bbox[1] > fin.bbox[4] - fin.bbox[2]
    /\ Len(fout.tiles) = 64
    /\ \A k \in DOMAIN fout.tiles : Area(fout.tiles[k]) > 0

\* ------------------------------------------------------------------------
\* generate_tiles as a function of the bounds and the size
\* ------------------------------------------------------------------------
\* Bounds near zero and bounds where the floats are one size apart or more.
GenOrigins == {0, Pow2(PREC) - 2}

GenInputs ==
    { [bounds |-> <<x, 0, x + w, h>>, size |-> sz] :
        x \in GenOrigins, w \in 1..4, h \in 1..4, sz \in 1..3 }

InitGen ==
    /\ pc = "gen"
    /\ gen = NewGen
    /\ fin \in { p \in GenInputs : Representable(p.bounds[3]) }
    /\ fout = <<>>
    /\ Idle

\* next() yields a tile.
GenYield ==
    /\ pc = "gen"
    /\ Len(fout) < MaxYield
    /\ LET g == Resume(gen, fin.bounds, fin.size)
       IN  /\ g.st # "done"
           /\ gen' = g
           /\ fout' = Append(fout, TileAt(g, fin.bounds, fin.size))
    /\ UNCHANGED <<pc, fin>>
    /\ UNCHANGED idleVars

\* next() finds the generator exhausted.
GenStop ==
    /\ pc = "gen"
    /\ LET g == Resume(gen, fin.bounds, fin.size)
       IN  g.st = "done" /\ gen' = g
    /\ pc' = "generated"
    /\ UNCHANGED <<fin, fout>>
    /\ UNCHANGED idleVars

NextGen == GenYield \/ GenStop

SpecGen == InitGen /\ [][NextGen]_vars

\* What C5 says of the tiles yielded so far and, at the end, of all of them:
\* they come in the order x outer, y inner, each after the one before (so
\* the sequence ends), (0,0,2,2) with size 1 gives the four tiles of the
\* example, every tile lies within the bounds, the last tile of each row and
\* column ends at maxx / maxy, and the tiles fill the bounds.
GeneratorCovers ==
    /\ \A k \in DOMAIN fout : Within(fout[k], fin.bounds)
    /\ \A k \in DOMAIN fout :
          k > 1 => \/ fout[k - 1][1] < fout[k][1]
                   \/ fout[k - 1][1] = fout[k][1] /\ fout[k - 1][2] < fout[k][2]
    /\ pc = "generated" =>
          /\ fin = [bounds |-> <<0, 0, 2, 2>>, size |-> 1] =>
                fout = << <<0, 0, 1, 1>>, <<0, 1, 1, 2>>, <<1, 0, 2, 1>>, <<1, 1, 2, 2>> >>
          /\ fout # <<>>
          /\ fout[Len(fout)][3] = fin.bounds[3]
          /\ fout[Len(fout)][4] = fin.bounds[4]
          /\ \A k \in DOMAIN fout :
                /\ (k = Len(fout) \/ fout[k + 1][1] # fout[k][1]) =>
                      fout[k][4] = fin.bounds[4]
                /\ fout[k][1] = fout[Len(fout)][1] => fout[k][3] = fin.bounds[3]
          /\ TilesExactly(fout, fin.bounds)

\* C5 as claimed: for any bounds and any size > 0.
C5_AnySizeCoversBounds == GeneratorCovers

\* Adding the size to a float of the bounds gives a larger float.
Advances(p) ==
    /\ \A v \in p.bounds[1]..(p.bounds[3] - 1) :
          Representable(v) => FAdd(v, p.size) > v
    /\ \A v \in p.bounds[2]..(p.bounds[4] - 1) :
          Representable(v) => FAdd(v, p.size) > v

\* C5, amended: for any bounds and any size that advances every float of
\* the bounds.
C5_AdvancingSizeCoversBounds == Advances(fin) => GeneratorCovers

\* The generator ended after a rounded step, two tiles a column, and a
\* last column narrower than the size.
C5_Witness ==
    /\ pc = "generated" /\ Advances(fin)
    /\ fin.bounds[1] > 0
    /\ Len(fout) >= 4
    /\ fout[Len(fout)][3] - fout[Len(fout)][1] < fin.size
    /\ \E k \in DOMAIN fout : fout[k][3] # fout[k][1] + fin.size /\ fout[k][3] < fin.bounds[3]

====
